---- MODULE Spec2Model ----
(***************************************************************************)
(* Model of df/goals.py: the Goal contract and its Classification variant. *)
(*                                                                         *)
(* numpy.float32 values are modelled as exact rationals <<n, d>> kept in   *)
(* lowest terms (d > 0); <<0, 0>> stands for the float NaN that a 0/0      *)
(* division produces.  A serialised entity (the str that tostring returns) *)
(* is a record [words, extra]: the 4-byte float32 words it holds and the   *)
(* number of trailing bytes that do not fill a word.                       *)
(***************************************************************************)
EXTENDS Integers, Sequences, FiniteSets, TLC

VARIABLES classCount, channel, es, weights, bincountEmptyOk, ent, ret

vars == <<classCount, channel, es, weights, bincountEmptyOk, ent, ret>>

(* ------------------------------ bounds --------------------------------- *)
MaxClasses == 2
MaxIndexLen == 2
MaxMass == 2
MaxListLen == 2

(* --------------------------- rational numbers -------------------------- *)
RECURSIVE Gcd(_, _)
Gcd(a, b) == IF b = 0 THEN a ELSE Gcd(b, a % b)

Abs(a) == IF a < 0 THEN -a ELSE a

NaN == <<0, 0>>
IsNaN(r) == r[2] = 0

Norm(n, d) == LET g == Gcd(Abs(n), d) IN <<n \div g, d \div g>>

R(n) == <<n, 1>>
Zero == R(0)
One == R(1)

RAdd(a, b) ==
  IF IsNaN(a) \/ IsNaN(b) THEN NaN
  ELSE LET g == Gcd(a[2], b[2])
       IN Norm(a[1] * (b[2] \div g) + b[1] * (a[2] \div g), (a[2] \div g) * b[2])

RNeg(a) == IF IsNaN(a) THEN NaN ELSE <<-a[1], a[2]>>

RSub(a, b) == RAdd(a, RNeg(b))

RMul(a, b) ==
  IF IsNaN(a) \/ IsNaN(b) THEN NaN
  ELSE LET g1 == Gcd(Abs(a[1]), b[2])
           g2 == Gcd(Abs(b[1]), a[2])
       IN Norm((a[1] \div g1) * (b[1] \div g2), (a[2] \div g2) * (b[2] \div g1))

\* Float division: 0/0 is NaN.  Every divisor of the model is non-negative,
\* and a positive value is never divided by zero (the numerators are parts
\* of the sum that is the divisor).
RDiv(a, b) ==
  IF IsNaN(a) \/ IsNaN(b) \/ b[1] = 0 THEN NaN
  ELSE RMul(a, <<b[2], b[1]>>)

\* a < b; any comparison with NaN is false, as for floats.
RLess(a, b) ==
  IF IsNaN(a) \/ IsNaN(b) THEN FALSE
  ELSE LET g == Gcd(a[2], b[2])
       IN a[1] * (b[2] \div g) < b[1] * (a[2] \div g)

RLeq(a, b) == ~IsNaN(a) /\ ~IsNaN(b) /\ ~RLess(b, a)

RECURSIVE RSum(_)
RSum(s) == IF s = <<>> THEN Zero ELSE RAdd(s[1], RSum(Tail(s)))

(* ----------------------------- constants ------------------------------- *)
\* 1e-6, the threshold of entropy, as 1 / EpsDen.
EpsDen == 1000000
Eps == <<1, EpsDen>>

\* The channel of es that holds the ground truth in the modelled forest.
TruthChannel == 1
Channels == 0..1

Exemplars == 0..(MaxClasses - 1)

\* The caller's weight array: a fractional weight, a zero weight and a
\* weight above one, in turn.
WeightVals == <<<<1, 2>>, Zero, R(2)>>
WeightArray == [i \in Exemplars |-> WeightVals[(i % 3) + 1]]

(* ------------------------------ python values -------------------------- *)
None == [t |-> "None"]
Raise(e) == [t |-> "raise", exc |-> e]
Raised(v) == v.t = "raise"
Array(a) == [t |-> "array", a |-> a]
Str(w, x) == [t |-> "str", words |-> w, extra |-> x]

zeros(n) == [i \in 1..n |-> Zero]

(* --------------------------------- numpy ------------------------------- *)
Min(a, b) == IF a < b THEN a ELSE b

RECURSIVE MaxOf(_)
MaxOf(x) == IF Len(x) = 1 THEN x[1]
            ELSE LET m == MaxOf(Tail(x)) IN IF x[1] > m THEN x[1] ELSE m

\* The weight that position j of x contributes: 1 when no weights are given.
RECURSIVE BinSum(_, _, _, _)
BinSum(x, w, c, j) ==
  IF j > Len(x) THEN Zero
  ELSE RAdd(IF x[j] = c THEN (IF w = None THEN One ELSE w.a[j]) ELSE Zero,
            BinSum(x, w, c, j + 1))

\* numpy.bincount(x, weights = w).  On an empty x the numpy releases the
\* module was written for raise ValueError (which is why stats tests
\* len(index) first); later releases return an empty array.
bincount(x, w) ==
  IF Len(x) = 0
  THEN IF bincountEmptyOk THEN Array(<<>>) ELSE Raise("ValueError")
  ELSE Array([c \in 1..(MaxOf(x) + 1) |-> BinSum(x, w, c - 1, 1)])

\* es[self.channel, index, 0]
Labels(index) == [j \in 1..Len(index) |-> es[channel][index[j]]]

\* weights[index] if weights != None else None
WeightsAt(w, index) ==
  IF w # None THEN Array([j \in 1..Len(index) |-> w.a[index[j]]]) ELSE None

\* ret.tostring(): the float32 words, no header and no padding.
tostring(a) == Str(a, 0)

\* numpy.fromstring(s, dtype = numpy.float32): a fresh array of the buffer's
\* words; a buffer that is not a whole number of words is refused.
fromstring(s) ==
  IF s.extra # 0 THEN Raise("ValueError") ELSE Array(s.words)

\* The zero padding of a histogram shorter than classCount.
Pad(a) ==
  IF Len(a) < classCount THEN a \o zeros(classCount - Len(a)) ELSE a

\* argmax taking the last of equal maxima.
RECURSIVE ArgmaxLastFrom(_, _, _)
ArgmaxLastFrom(a, best, j) ==
  IF j > Len(a) THEN best - 1
  ELSE IF ~IsNaN(a[best]) /\ (IsNaN(a[j]) \/ RLeq(a[best], a[j]))
       THEN ArgmaxLastFrom(a, j, j + 1)
       ELSE ArgmaxLastFrom(a, best, j + 1)

argmaxLast(a) == ArgmaxLastFrom(a, 1, 2)

\* numpy.argmax: the lowest index of the maximum; a NaN counts as the
\* maximum.  Indices are 0-based, as in numpy.
RECURSIVE ArgmaxFrom(_, _, _)
ArgmaxFrom(a, best, j) ==
  IF j > Len(a) THEN best - 1
  ELSE IF ~IsNaN(a[best]) /\ (IsNaN(a[j]) \/ RLess(a[best], a[j]))
       THEN ArgmaxFrom(a, j, j + 1)
       ELSE ArgmaxFrom(a, best, j + 1)

argmax(a) == ArgmaxFrom(a, 1, 2)

(* ----------------------------- Classification -------------------------- *)
stats(index, w) ==
  LET r == IF Len(index) # 0
           THEN bincount(Labels(index), WeightsAt(w, index))
           ELSE Array(zeros(classCount))
  IN IF Raised(r) THEN r ELSE tostring(Pad(r.a))

\* updateStats with ret[:n] = toAdd in place of +=.
updateStatsAssign(st, index, w) ==
  LET r == fromstring(st)
      toAdd == bincount(Labels(index), WeightsAt(w, index))
  IN IF Raised(r) THEN r
     ELSE IF Raised(toAdd) THEN toAdd
     ELSE LET n == Len(toAdd.a)
              m == Min(n, Len(r.a))
          IN IF n # m /\ n # 1 THEN Raise("ValueError")
             ELSE tostring([j \in 1..Len(r.a) |->
                     IF j <= m THEN toAdd.a[IF n = 1 THEN 1 ELSE j] ELSE r.a[j]])

\* ret[:toAdd.shape[0]] += toAdd on a copy of the entity's words.  The
\* slice is cut at the array's end; a toAdd longer than the slice cannot
\* be broadcast unless it has one entry.
updateStats(st, index, w) ==
  LET r == fromstring(st)
      toAdd == bincount(Labels(index), WeightsAt(w, index))
  IN IF Raised(r) THEN r
     ELSE IF Raised(toAdd) THEN toAdd
     ELSE LET n == Len(toAdd.a)
              m == Min(n, Len(r.a))
          IN IF n # m /\ n # 1 THEN Raise("ValueError")
             ELSE tostring([j \in 1..Len(r.a) |->
                     IF j <= m THEN RAdd(r.a[j], toAdd.a[IF n = 1 THEN 1 ELSE j])
                     ELSE r.a[j]])

\* entropy without the division by dist.sum().
entropyRaw(st) ==
  LET dist == fromstring(st)
  IN IF Raised(dist) THEN dist
     ELSE [t |-> "entropy", p |-> SelectSeq(dist.a, LAMBDA x : RLess(Eps, x))]

\* entropy dividing by the sum of the entries it keeps.
entropyKept(st) ==
  LET dist == fromstring(st)
  IN IF Raised(dist) THEN dist
     ELSE LET kept == SelectSeq(dist.a, LAMBDA x : RLess(Eps, x))
          IN [t |-> "entropy", p |-> [j \in 1..Len(kept) |-> RDiv(kept[j], RSum(kept))]]

\* The value is -(p * log(p)).sum(); the model keeps p, the array the sum
\* is taken over.
entropy(st) ==
  LET dist == fromstring(st)
  IN IF Raised(dist) THEN dist
     ELSE LET total == RSum(dist.a)
              kept == SelectSeq(dist.a, LAMBDA x : RLess(Eps, x))
          IN [t |-> "entropy", p |-> [j \in 1..Len(kept) |-> RDiv(kept[j], total)]]

summary(index, w) ==
  LET r == bincount(Labels(index), WeightsAt(w, index))
  IN IF Raised(r) THEN r ELSE tostring(Pad(r.a))

updateSummary(sm, index, w) ==
  LET r == fromstring(sm)
      toAdd == bincount(Labels(index), WeightsAt(w, index))
  IN IF Raised(r) THEN r
     ELSE IF Raised(toAdd) THEN toAdd
     ELSE LET n == Len(toAdd.a)
              m == Min(n, Len(r.a))
          IN IF n # m /\ n # 1 THEN Raise("ValueError")
             ELSE tostring([j \in 1..Len(r.a) |->
                     IF j <= m THEN RAdd(r.a[j], toAdd.a[IF n = 1 THEN 1 ELSE j])
                     ELSE r.a[j]])

\* prob += dist / dist.sum() for each entity in turn.  An entity of another
\* length than prob cannot be added in place unless it has one entry, which
\* numpy broadcasts over all of prob.
RECURSIVE SumDists(_, _, _)
SumDists(stats_list, prob, k) ==
  IF k > Len(stats_list) THEN Array(prob)
  ELSE LET dist == fromstring(stats_list[k])
       IN IF Raised(dist) THEN dist
          ELSE LET total == RSum(dist.a)
                   n == Len(dist.a)
               IN IF n # Len(prob) /\ n # 1 THEN Raise("ValueError")
                  ELSE SumDists(stats_list,
                         [j \in 1..Len(prob) |->
                            RAdd(prob[j], RDiv(dist.a[IF n = 1 THEN 1 ELSE j], total))],
                         k + 1)

make_answer(name, prob) ==
  IF name = "prob" THEN Array(prob)
  ELSE IF name = "best" THEN [t |-> "int", v |-> argmax(prob)]
  ELSE None

\* which is [single, names]: a str is a single name, a list is its names.
answer(stats_list, which) ==
  LET need == \E i \in 1..Len(which.names) : which.names[i] \in {"prob", "best"}
      acc == IF need THEN SumDists(stats_list, zeros(classCount), 1) ELSE Array(<<>>)
  IN IF Raised(acc) THEN acc
     ELSE LET total == RSum(acc.a)
              prob == [j \in 1..Len(acc.a) |-> RDiv(acc.a[j], total)]
              items == [i \in 1..Len(which.names) |-> make_answer(which.names[i], prob)]
          IN IF which.single THEN items[1] ELSE [t |-> "tuple", items |-> items]

\* error averaging dist in place of 1.0 - dist.
errorOfHits(st, sm) ==
  LET d == fromstring(st)
      test == fromstring(sm)
  IN IF Raised(d) THEN d
     ELSE IF Raised(test) THEN test
     ELSE LET total == RSum(d.a)
              dist == [j \in 1..Len(d.a) |-> RDiv(d.a[j], total)]
              count == RSum(test.a)
              n == Len(dist)
              m == Len(test.a)
              len == IF n > m THEN n ELSE m
          IN IF n # m /\ n # 1 /\ m # 1 THEN Raise("ValueError")
             ELSE LET prod == [j \in 1..len |->
                                 RMul(dist[IF n = 1 THEN 1 ELSE j],
                                      test.a[IF m = 1 THEN 1 ELSE j])]
                  IN [t |-> "pair", err |-> RDiv(RSum(prod), count), count |-> count]

\* ((1.0 - dist) * test).sum() / count; the product broadcasts an array of
\* one entry over the other and refuses any other pair of unequal lengths.
error(st, sm) ==
  LET d == fromstring(st)
      test == fromstring(sm)
  IN IF Raised(d) THEN d
     ELSE IF Raised(test) THEN test
     ELSE LET total == RSum(d.a)
              dist == [j \in 1..Len(d.a) |-> RDiv(d.a[j], total)]
              count == RSum(test.a)
              n == Len(dist)
              m == Len(test.a)
              len == IF n > m THEN n ELSE m
          IN IF n # m /\ n # 1 /\ m # 1 THEN Raise("ValueError")
             ELSE LET prod == [j \in 1..len |->
                                 RMul(RSub(One, dist[IF n = 1 THEN 1 ELSE j]),
                                      test.a[IF m = 1 THEN 1 ELSE j])]
                  IN [t |-> "pair", err |-> RDiv(RSum(prod), count), count |-> count]

clone == [t |-> "goal", classCount |-> classCount, channel |-> channel]

(* ------------------------------ the callers ---------------------------- *)
SeqsUpTo(S, n) == UNION { [1..k -> S] : k \in 0..n }

IndexSets == SeqsUpTo(Exemplars, MaxIndexLen)

\* The weights argument: None, or the caller's weight array.
WeightArgs == {None, Array(weights)}

WhichChoices ==
  { [single |-> TRUE, names |-> <<n>>] : n \in {"best", "prob", "median"} }
    \cup { [single |-> FALSE, names |-> l] :
             l \in {<<"best", "prob">>, <<"best", "median">>} }

NoWhich == [single |-> FALSE, names |-> <<>>]

\* The weight of the exemplars a call folds in.
TotalWeight(index, w) ==
  RSum([j \in 1..Len(index) |-> IF w = None THEN One ELSE w.a[index[j]]])

NoEnt == [kind |-> "none", buf |-> Str(<<>>, 0), mass |-> Zero]

Call(op, bufs, index, w, which, val, mass) ==
  [op |-> op, bufs |-> bufs, index |-> index, w |-> w, which |-> which,
   val |-> val, mass |-> mass]

NoCall == Call("none", <<>>, <<>>, None, NoWhich, None, Zero)

KindOf(op) == IF op \in {"stats", "updateStats"} THEN "stats" ELSE "summary"

\* The entities the caller holds: the one it kept and the one the last
\* call returned.
HeldEnts ==
  (IF ent.kind # "none" THEN {ent} ELSE {})
    \cup (IF ret.val.t = "str"
          THEN {[kind |-> KindOf(ret.op), buf |-> ret.val, mass |-> ret.mass]}
          ELSE {})

Held(kind) == { e \in HeldEnts : e.kind = kind }

\* Entities read back from storage: every length around classCount, masses
\* on both sides of the 1e-6 threshold, and buffers cut inside a word.
Tiny == Norm(1, 2 * EpsDen)
Small == Norm(2, EpsDen)

LoadedBufs ==
  { Str(a, 0) : a \in UNION { [1..k -> {Tiny, Small}] : k \in 1..(classCount + 1) } }
    \cup { Str(a, 2) : a \in [1..classCount -> {Small}] }

Loaded(kind) ==
  { [kind |-> kind, buf |-> b, mass |-> RSum(b.words)] : b \in LoadedBufs }

config == <<classCount, channel, es, weights, bincountEmptyOk>>

\* The caller makes a call on the entities it holds once it has dealt with
\* the result of the one before: kept it, or dropped it.
Idle == ret = NoCall

(* -------------------------------- actions ------------------------------ *)
CallClone ==
  /\ Idle
  /\ ret' = Call("clone", <<>>, <<>>, None, NoWhich, clone, Zero)
  /\ UNCHANGED <<config, ent>>

CallStats(index, w) ==
  /\ Idle
  /\ RLeq(TotalWeight(index, w), R(MaxMass))
  /\ ret' = Call("stats", <<>>, index, w, NoWhich, stats(index, w), TotalWeight(index, w))
  /\ UNCHANGED <<config, ent>>

\* updateStats writing its sum into the entity it was given.
CallUpdateStatsInPlace(e, index, w) ==
  /\ Idle
  /\ RLeq(RAdd(e.mass, TotalWeight(index, w)), R(MaxMass))
  /\ ret' = Call("updateStats", <<e.buf>>, index, w, NoWhich,
                 updateStats(e.buf, index, w), RAdd(e.mass, TotalWeight(index, w)))
  /\ ent' = IF ret'.val.t = "str" THEN [ent EXCEPT !.buf = ret'.val] ELSE ent
  /\ UNCHANGED config

CallUpdateStats(e, index, w) ==
  /\ Idle
  /\ RLeq(RAdd(e.mass, TotalWeight(index, w)), R(MaxMass))
  /\ ret' = Call("updateStats", <<e.buf>>, index, w, NoWhich,
                 updateStats(e.buf, index, w), RAdd(e.mass, TotalWeight(index, w)))
  /\ UNCHANGED <<config, ent>>

CallEntropy(e) ==
  /\ ret' = Call("entropy", <<e.buf>>, <<>>, None, NoWhich, entropy(e.buf), Zero)
  /\ UNCHANGED <<config, ent>>

CallAnswer(stats_list, which) ==
  /\ ret' = Call("answer", stats_list, <<>>, None, which, answer(stats_list, which), Zero)
  /\ UNCHANGED <<config, ent>>

CallSummary(index, w) ==
  /\ Idle
  /\ RLeq(TotalWeight(index, w), R(MaxMass))
  /\ ret' = Call("summary", <<>>, index, w, NoWhich, summary(index, w), TotalWeight(index, w))
  /\ UNCHANGED <<config, ent>>

CallUpdateSummary(e, index, w) ==
  /\ Idle
  /\ RLeq(RAdd(e.mass, TotalWeight(index, w)), R(MaxMass))
  /\ ret' = Call("updateSummary", <<e.buf>>, index, w, NoWhich,
                 updateSummary(e.buf, index, w), RAdd(e.mass, TotalWeight(index, w)))
  /\ UNCHANGED <<config, ent>>

CallError(s, m) ==
  /\ ret' = Call("error", <<s.buf, m.buf>>, <<>>, None, NoWhich, error(s.buf, m.buf), Zero)
  /\ UNCHANGED <<config, ent>>

\* The caller keeps the entity the last call returned (a tree stores it in
\* its node) in place of the one it held.
Keep ==
  /\ ret.op \in {"stats", "updateStats", "summary", "updateSummary"}
  /\ ret.val.t = "str"
  /\ ent' = [kind |-> KindOf(ret.op), buf |-> ret.val, mass |-> ret.mass]
  /\ ret' = NoCall
  /\ UNCHANGED config

\* The caller drops the result of the last call.
Drop ==
  /\ ~Idle
  /\ ret' = NoCall
  /\ UNCHANGED <<config, ent>>

(* ---------------------------- specifications --------------------------- *)
\* Classification(classCount, channel) over a feature set whose ground
\* truth channel holds every class.
Init ==
  /\ classCount \in 1..MaxClasses
  /\ channel = TruthChannel
  /\ es = [ch \in Channels |->
             [i \in Exemplars |-> IF ch = channel THEN i % classCount ELSE 0]]
  /\ weights = WeightArray
  /\ bincountEmptyOk \in BOOLEAN
  /\ ent = NoEnt
  /\ ret = NoCall

\* A consumer is called on entities the caller holds; a result that is no
\* entity is of no use to it.
Ready == Idle \/ ret.val.t = "str"

Next ==
  \/ CallClone
  \/ Idle /\ \E index \in IndexSets, w \in WeightArgs : CallStats(index, w)
  \/ Idle /\ ent.kind = "stats"
          /\ \E index \in IndexSets, w \in WeightArgs : CallUpdateStats(ent, index, w)
  \/ Ready /\ \E e \in Held("stats") : CallEntropy(e)
  \/ Ready /\ \E l \in SeqsUpTo(Held("stats"), MaxListLen), which \in WhichChoices :
                CallAnswer([i \in 1..Len(l) |-> l[i].buf], which)
  \/ Idle /\ \E index \in IndexSets, w \in WeightArgs : CallSummary(index, w)
  \/ Idle /\ ent.kind = "summary"
          /\ \E index \in IndexSets, w \in WeightArgs : CallUpdateSummary(ent, index, w)
  \/ Ready /\ \E s \in Held("stats"), m \in Held("summary") : CallError(s, m)
  \/ Keep
  \/ Drop

Spec == Init /\ [][Next]_vars

\* The consumers of an entity, each applied once to entities read back from
\* storage.
NextLoaded ==
  \/ Idle /\ \E e \in Loaded("stats"), index \in IndexSets, w \in WeightArgs :
               CallUpdateStats(e, index, w)
  \/ Idle /\ \E e \in Loaded("stats") : CallEntropy(e)
  \/ Idle /\ \E l \in SeqsUpTo(Loaded("stats"), MaxListLen), which \in WhichChoices :
               CallAnswer([i \in 1..Len(l) |-> l[i].buf], which)
  \/ Idle /\ \E e \in Loaded("summary"), index \in IndexSets, w \in WeightArgs :
               CallUpdateSummary(e, index, w)
  \/ Idle /\ \E s \in Loaded("stats"), m \in Loaded("summary") : CallError(s, m)

SpecLoaded == Init /\ [][NextLoaded]_vars

(* ------------------------- stating the properties ---------------------- *)
\* The weight of the positions of index whose ground truth is class c.
ClassWeight(index, w, c) ==
  TotalWeight(SelectSeq(index, LAMBDA i : es[channel][i] = c), w)

Histogram(index, w) ==
  Str([c \in 1..classCount |-> ClassWeight(index, w, c - 1)], 0)

\* A buffer of exactly 4 * classCount bytes.
WellFormed(b) == b.extra = 0 /\ Len(b.words) = classCount

NonNegative(a) == \A j \in 1..Len(a) : RLeq(Zero, a[j])

Elems(l) == { l[j] : j \in 1..Len(l) }

(* C1: stats and summary return, for every index sequence (the empty one
   included) and weights absent or non-negative, the histogram of
   classCount entries whose entry c is the weight of the positions of
   class c; so summary returns what stats returns. *)
C1_HistogramOfIndex ==
  ret.op \in {"stats", "summary"} => ret.val = Histogram(ret.index, ret.w)

(* C2: every entity obtained from stats or summary and any number of
   updates has classCount entries, none negative, and they sum to the
   weight of the exemplars folded in: the mass is kept as accumulated. *)
C2_EntityShape ==
  \A e \in HeldEnts :
    /\ WellFormed(e.buf)
    /\ NonNegative(e.buf.words)
    /\ RSum(e.buf.words) = e.mass

C2_Witness ==
  /\ ret.op = "updateSummary"
  /\ ret.val.t = "str"
  /\ ret.w # None
  /\ ent.mass = One
  /\ ret.mass = R(2)
  /\ classCount > 1

(* C3: updateStats(stats(es, I1), es, I2) is stats(es, I1 union I2) for
   disjoint I1 and I2, either of which may be empty; likewise for
   updateSummary over summary. *)
C3_Additivity ==
  \A I1 \in IndexSets :
    Elems(I1) \cap Elems(ret.index) = {} =>
      /\ (ret.op = "updateStats" /\ ret.w = None /\ ret.bufs = <<stats(I1, None)>>)
           => ret.val = stats(I1 \o ret.index, None)
      /\ (ret.op = "updateSummary" /\ ret.w = None /\ ret.bufs = <<Histogram(I1, None)>>)
           => ret.val = Histogram(I1 \o ret.index, None)

PositiveMass(b) == RLess(Zero, RSum(b.words))

\* The mean of the entities' normalised histograms.
MeanDist(bufs) ==
  [c \in 1..classCount |->
     RDiv(RSum([k \in 1..Len(bufs) |-> RDiv(bufs[k].words[c], RSum(bufs[k].words))]),
          R(Len(bufs)))]

\* v is the lowest index (from 0) at which prob is largest.
LowestMax(v, prob) ==
  /\ v \in 0..(Len(prob) - 1)
  /\ \A c \in 1..Len(prob) : RLeq(prob[c], prob[v + 1])
  /\ \A c \in 1..v : RLess(prob[c], prob[v + 1])

BestProb == [single |-> FALSE, names |-> <<"best", "prob">>]

(* C4: for a non-empty list of histograms of classCount entries and
   positive mass, answer(stats_list, ["best", "prob"]) is the tuple
   (best, prob): prob is the sum of the normalised histograms normalised
   again, so the mean of them whatever their masses, and best the lowest
   index of its maximum; a single name gets the bare value.  [4,0] and
   [0,4] give prob [1/2, 1/2] and best 0. *)
C4_AnswerBestProb ==
  /\ (ret.op = "answer" /\ ret.bufs # <<>>
        /\ \A b \in Elems(ret.bufs) : WellFormed(b) /\ NonNegative(b.words) /\ PositiveMass(b))
       => LET prob == MeanDist(ret.bufs)
          IN /\ RSum(prob) = One
             /\ ret.which = BestProb =>
                  /\ ret.val.t = "tuple"
                  /\ Len(ret.val.items) = 2
                  /\ ret.val.items[1].t = "int"
                  /\ LowestMax(ret.val.items[1].v, prob)
                  /\ ret.val.items[2] = Array(prob)
             /\ ret.which = [single |-> TRUE, names |-> <<"prob">>] =>
                  ret.val = Array(prob)
             /\ ret.which = [single |-> TRUE, names |-> <<"best">>] =>
                  ret.val.t = "int" /\ LowestMax(ret.val.v, prob)
  /\ classCount = 2 =>
       answer(<<Str(<<R(4), Zero>>, 0), Str(<<Zero, R(4)>>, 0)>>, BestProb)
         = [t |-> "tuple", items |-> <<[t |-> "int", v |-> 0], Array(<<<<1, 2>>, <<1, 2>>>>)>>]

\* Two entities of different mass, one per class: a tie.
C4_Witness ==
  /\ ret.op = "answer"
  /\ ret.which = BestProb
  /\ Len(ret.bufs) = 2
  /\ ret.bufs[1].words = <<Zero, One>>
  /\ ret.bufs[2].words = <<R(2), Zero>>
  /\ ret.val.t = "tuple"
  /\ ret.val.items[1].v = 0

(* C5: for a stats histogram of positive mass T and a non-negative summary
   histogram of positive mass N, error returns (e, N) with
   e = (sum of (1 - stats_i / T) * summary_i) / N and 0 <= e <= 1.
   [8,2] and [3,1] give (0.35, 4). *)
C5_ErrorPair ==
  /\ (ret.op = "error"
        /\ \A b \in Elems(ret.bufs) : WellFormed(b) /\ NonNegative(b.words) /\ PositiveMass(b))
       => LET st == ret.bufs[1].words
              sm == ret.bufs[2].words
              T == RSum(st)
              N == RSum(sm)
          IN /\ ret.val.t = "pair"
             /\ ret.val.count = N
             /\ RMul(RMul(ret.val.err, N), T)
                  = RSum([i \in 1..classCount |-> RMul(RSub(T, st[i]), sm[i])])
             /\ RLeq(Zero, ret.val.err)
             /\ RLeq(ret.val.err, One)
  /\ classCount = 2 =>
       error(Str(<<R(8), R(2)>>, 0), Str(<<R(3), One>>, 0))
         = [t |-> "pair", err |-> <<7, 20>>, count |-> R(4)]

C5_Witness ==
  /\ ret.op = "error"
  /\ ret.bufs = <<Str(<<One, One>>, 0), Str(<<<<1, 2>>, Zero>>, 0)>>
  /\ ret.val.t = "pair"
  /\ ret.val.err = <<1, 2>>
  /\ ret.val.count = <<1, 2>>

\* The value -sum p ln p of an entropy result, as exp(D * value) for D the
\* common denominator of p: with p_j = m_j / D and M the sum of the m_j it
\* is D^M over the product of the m_j^m_j.
RECURSIVE Pow(_, _)
Pow(b, e) == IF e = 0 THEN 1 ELSE b * Pow(b, e - 1)

RECURSIVE CommonDen(_)
CommonDen(p) ==
  IF p = <<>> THEN 1
  ELSE LET d == CommonDen(Tail(p)) IN (p[1][2] \div Gcd(p[1][2], d)) * d

Numerators(p) == [j \in 1..Len(p) |-> p[j][1] * (CommonDen(p) \div p[j][2])]

RECURSIVE SumInt(_)
SumInt(m) == IF m = <<>> THEN 0 ELSE m[1] + SumInt(Tail(m))

RECURSIVE SelfPowers(_)
SelfPowers(m) == IF m = <<>> THEN 1 ELSE Pow(m[1], m[1]) * SelfPowers(Tail(m))

ExpTop(p) == Pow(CommonDen(p), SumInt(Numerators(p)))
ExpBottom(p) == SelfPowers(Numerators(p))

EntropyIsZero(p) == ExpTop(p) = ExpBottom(p)
EntropyIsLn(p, k) ==
  /\ ExpTop(p) % ExpBottom(p) = 0
  /\ ExpTop(p) \div ExpBottom(p) = Pow(k, CommonDen(p))
EntropyAtMostLn(p, k) ==
  (ExpTop(p) + ExpBottom(p) - 1) \div ExpBottom(p) <= Pow(k, CommonDen(p))

(* C6: the entropy of a histogram whose mass lies in one class is 0, that
   of a histogram split evenly over all classCount classes is
   ln(classCount), and no histogram of classCount entries has a larger
   entropy. *)
C6_EntropyRange ==
  (ret.op = "entropy" /\ WellFormed(ret.bufs[1])) =>
    LET h == ret.bufs[1].words
    IN /\ ret.val.t = "entropy"
       /\ Cardinality({c \in 1..classCount : h[c] # Zero}) = 1
            => EntropyIsZero(ret.val.p)
       /\ (h[1] # Zero /\ \A c \in 1..classCount : h[c] = h[1])
            => EntropyIsLn(ret.val.p, classCount)
       /\ EntropyAtMostLn(ret.val.p, classCount)

C6_Witness ==
  /\ ret.op = "entropy"
  /\ classCount > 1
  /\ \A c \in 1..classCount : ret.bufs[1].words[c] = One
  /\ EntropyIsLn(ret.val.p, classCount)
  /\ ~EntropyIsZero(ret.val.p)

(* C7: answer fails with an unknown answer type error whenever a name
   outside answer_types() is requested, alone or beside valid names; it
   returns no value for that name. *)
C7_UnknownNameFails ==
  (ret.op = "answer"
     /\ \E i \in 1..Len(ret.which.names) : ret.which.names[i] \notin {"best", "prob"})
    => Raised(ret.val)

(* C8: updateStats, updateSummary, entropy, answer and error fail with a
   decode error on a buffer that is not exactly 4 * classCount bytes long;
   none computes a result from it. *)
C8_MalformedRejected ==
  (ret.op \in {"updateStats", "updateSummary", "entropy", "answer", "error"}
     /\ \E b \in Elems(ret.bufs) : ~WellFormed(b))
    => Raised(ret.val)

(* C9: no operation changes classCount or channel, the feature set, the
   weights or an entity passed to it: after a call the caller's entity is
   what it was, and an update's result is a new entity. *)
C9_Frame ==
  [][/\ classCount' = classCount
     /\ channel' = channel
     /\ es' = es
     /\ weights' = weights
     /\ ret'.op # "none" => ent' = ent]_vars

C9_Witness ==
  /\ ret.op = "updateStats"
  /\ ret.bufs = <<ent.buf>>
  /\ ret.val.t = "str"
  /\ ret.val # ent.buf

Kept(a) == SelectSeq(a, LAMBDA x : RLess(Eps, x))

EntropyInput ==
  /\ ret.op = "entropy"
  /\ WellFormed(ret.bufs[1])
  /\ NonNegative(ret.bufs[1].words)
  /\ Kept(ret.bufs[1].words) # <<>>

(* C10 as claimed: the p_i of entropy are the entries above 1e-6 divided
   by the sum of those entries, so they sum to 1 and mass at or below
   1e-6 does not affect the result. *)
C10_RetainedNormalised ==
  EntropyInput =>
    LET kept == Kept(ret.bufs[1].words)
    IN /\ ret.val.p = [j \in 1..Len(kept) |-> RDiv(kept[j], RSum(kept))]
       /\ RSum(ret.val.p) = One

(* C10 as amended: the p_i of entropy are the entries above 1e-6 divided
   by the sum of all the entries, so they sum to 1 only when the discarded
   entries are all zero and to less otherwise. *)
C10_TotalNormalised ==
  EntropyInput =>
    LET kept == Kept(ret.bufs[1].words)
        total == RSum(ret.bufs[1].words)
    IN /\ ret.val.t = "entropy"
       /\ Len(ret.val.p) = Len(kept)
       /\ \A j \in 1..Len(kept) : RMul(ret.val.p[j], total) = kept[j]
       /\ RSum(ret.val.p) = One <=> RSum(kept) = total
       /\ RLeq(RSum(ret.val.p), One)

\* One class above the threshold and positive mass below it in the other.
C10_Witness ==
  /\ ret.op = "entropy"
  /\ ret.bufs = <<Str(<<Small, Tiny>>, 0)>>
  /\ classCount = 2
  /\ ret.val.p = << <<4, 5>> >>
====
